---- MODULE Spec2Model ----
(***************************************************************************)
(* Model of rpc/block_reader.go: BlockReader, the failover reader of one   *)
(* HDFS block.  One BlockReader session at a time is modelled, with a      *)
(* caller thread inside Read and a second thread that may call Close at    *)
(* any moment; sessions follow one another and share the failure cache.    *)
(*                                                                         *)
(* datanodeFailover and blockReadStream are not part of block_reader.go;   *)
(* they are modelled from their description (selector: candidates ordered  *)
(* by failure count, pop-only; stream: verified bytes in block order).     *)
(***************************************************************************)
EXTENDS Integers, Sequences, FiniteSets

\* ---------------------------------------------------------------- bounds
NumNodes == 2
NumBytes == 3
MaxBuf == 2
MaxChunk == 2
MaxSessions == 2
MaxMsgLen == 4
MaxTail == 2

Nodes == 1..NumNodes

\* ---------------------------------------------------------------- errors
NoErr == "nil"
EOF == "io.EOF"
ErrClosedPipe == "io.ErrClosedPipe"
ErrUnexpectedEOF == "io.ErrUnexpectedEOF"
ErrNoDatanodes == "No available datanodes for block."
ErrDial == "dial"
ErrWrite == "write"
ErrProto == "proto.Unmarshal"
ErrChecksumType == "Unsupported checksum type"
ErrIO == "read"
ErrChecksum == "checksum mismatch"

\* errors of net.DialTimeout
DialErrs == {ErrDial}
\* errors of writeBlockReadRequest (w.Write)
WriteErrs == {ErrWrite}
\* errors of readBlockReadResponse: io.ReadFull gives EOF when nothing was
\* read and ErrUnexpectedEOF on a short read; a decoded length < 1 gives
\* ErrUnexpectedEOF; proto.Unmarshal gives a parse error
RespErrs == {EOF, ErrUnexpectedEOF, ErrIO, ErrProto}
\* non-EOF errors of blockReadStream.Read
StreamErrs == {ErrIO, ErrChecksum}

VARIABLES
    session,    \* number of BlockReaders constructed so far
    locs,       \* block.GetLocs() as addresses, in the namenode's order
    cache,      \* the global failure cache: address -> recorded failures
    remaining,  \* datanodeFailover: candidates not yet popped, best first
    current,    \* datanodeFailover: the candidate popped last (0: none)
    lastErr,    \* datanodeFailover: the error recorded last
    stream,     \* br.stream (sock = 0: nil)
    conn,       \* br.conn, a socket id (0: nil)
    offset,     \* br.offset
    closed,     \* br.closed
    pc,         \* the caller's position: "idle", "loop" (inside Read, at
                \* the head of the retry loop) or "connect" (inside
                \* connectNext, waiting on the network)
    buf,        \* len(b) of the Read call in flight
    ret,        \* what the last Read call returned
    closeRet,   \* what the last Close call returned
    open,       \* sockets dialed by this reader and not closed
    dialed,     \* history: the addresses dialed by this reader, in order
    initOffset, \* history: the offset given to NewBlockReader
    delivered,  \* history: the bytes returned to the caller, in order
    everFailed, \* history: addresses whose attempt or stream ever failed
    attempt,    \* connectNext: the stage it waits at, and once it has
                \* returned the stage it failed at or "ok"; the chunk
                \* offset of the response and the bytes discarded
    returned,   \* history: the sum of the byte counts Read returned
    call,       \* history: the last Read call: candidates at entry, work done
    resp,       \* readBlockReadResponse: what the datanode sends
    ppc,        \* readBlockReadResponse: "off", "start" or "done"
    parsed      \* readBlockReadResponse: what it returned and consumed

readerVars == <<session, locs, cache, remaining, current, lastErr, stream,
                conn, offset, closed, pc, buf, ret, closeRet, open, dialed,
                initOffset, delivered, everFailed, attempt, returned, call>>

parseVars == <<resp, ppc, parsed>>

vars == <<session, locs, cache, remaining, current, lastErr, stream, conn,
          offset, closed, pc, buf, ret, closeRet, open, dialed, initOffset,
          delivered, everFailed, attempt, returned, call, resp, ppc, parsed>>

\* ------------------------------------------------------------ the block
\* the byte of the block at position i (positions stand for the contents,
\* so that a duplicated or skipped byte shows)
BlockByte(i) == 100 + i

BlockBytes(from, n) == [k \in 1..n |-> BlockByte(from + k - 1)]

NoStream == [sock |-> 0, pos |-> 0, end |-> 0]
NoRet == [n |-> 0, err |-> "none"]
NoAttempt == [stage |-> "none", chunkOff |-> 0, discarded |-> 0]
NoCall == [rem |-> 0, attempts |-> 0, reads |-> 0]
NoResp == [v |-> 0, len |-> 0, tail |-> 0, cut |-> 0, end |-> "none",
           proto |-> FALSE]
NoParsed == [err |-> "none", msg |-> <<>>, consumed |-> 0]

\* the replica lists a block can have: NewBlockReader takes the locations as
\* they come, an address may occur more than once.  The reader never looks
\* into an address, so one list stands for every list obtained from it by
\* renaming the addresses: the addresses are numbered in the order of their
\* first occurrence
LocLists ==
    {s \in UNION {[1..k -> Nodes] : k \in 0..NumNodes} :
        \A i \in DOMAIN s :
            s[i] = 1 \/ \E j \in 1..(i - 1) : s[j] = s[i] - 1}

\* ------------------------------------------- datanodeFailover (selector)
\* stable insertion of address a into a list ordered by failure count
RECURSIVE InsertByFailures(_, _, _)
InsertByFailures(a, sorted, c) ==
    IF sorted = <<>> THEN <<a>>
    ELSE IF c[Head(sorted)] <= c[a]
         THEN <<Head(sorted)>> \o InsertByFailures(a, Tail(sorted), c)
         ELSE <<a>> \o sorted

\* newDatanodeFailover: the candidates ascending by failure count, ties in
\* the original order
RECURSIVE NewDatanodeFailover(_, _)
NewDatanodeFailover(addrs, c) ==
    IF addrs = <<>> THEN <<>>
    ELSE InsertByFailures(addrs[Len(addrs)],
                          NewDatanodeFailover(SubSeq(addrs, 1, Len(addrs) - 1), c), c)

NumRemaining(rem) == Len(rem)

\* recordFailure(err): the error becomes the last error and the failure is
\* counted against the candidate popped last
RecordedCache(c, a) == [c EXCEPT ![a] = @ + 1]

\* ------------------------------------------------------ blockReadStream
Min(a, b) == IF a < b THEN a ELSE b

\* the datanode starts the stream at the chunk boundary at or before the
\* requested start
ChunkStart(start, chunkSize) == start - (start % chunkSize)

\* what one blockReadStream.Read(b) can return: n verified bytes, read in
\* block order from st.pos, and an error
StreamOutcomes(st, len, op) ==
    LET m == Min(len, st.end - st.pos)
    IN IF st.sock \notin op
         THEN {[n |-> k, err |-> ErrIO] : k \in 0..m}
         ELSE {[n |-> k, err |-> NoErr] : k \in 1..m}
              \cup {[n |-> k, err |-> e] : k \in 0..m, e \in StreamErrs \cup {EOF}}

\* -------------------------------------------------------- BlockReader
\* (faulty variant: the comparison is off by one)
AtEndOffByOne(off, numBytes) == off < 0 \/ off > numBytes
\* Read, line 58: the offset has reached the end of the block.  The offset
\* is compared as a uint64: a negative int64 converts to 2^63 or more, above
\* every block length
AtEnd(off, numBytes) == off < 0 \/ off >= numBytes

\* (faulty variant: the end of the block is checked before closed)
EntryCheckEndFirst(cl, off, numBytes) ==
    IF AtEnd(off, numBytes) THEN "eof" ELSE IF cl THEN "closed" ELSE "loop"
\* Read, lines 56-61: what the checks on entry decide
EntryCheck(cl, off, numBytes) ==
    IF cl THEN "closed" ELSE IF AtEnd(off, numBytes) THEN "eof" ELSE "loop"

\* Read, line 64: the condition of the retry loop
LoopGuard(st, rem) == st.sock # 0 \/ NumRemaining(rem) > 0

\* (faulty variant: the comparison with EOF is inverted)
IsFailureInverted(err) == err # NoErr /\ err = EOF
\* Read, line 79: the stream read failed with something other than EOF
IsFailure(err) == err # NoErr /\ err # EOF

\* (faulty variant: a failed read always goes round the loop)
ReturnsPartialNever(n) == FALSE
\* Read, lines 82-86: after a failed stream read, Read returns the bytes it
\* got if there are any and goes round the loop otherwise
ReturnsPartial(n) == n > 0

\* (faulty variant: the recorded error is dropped)
ExhaustErrGeneric(le) == ErrNoDatanodes
\* Read, lines 92-95: the error returned when the loop ends
ExhaustErr(le) == IF le = NoErr THEN ErrNoDatanodes ELSE le

\* writeBlockReadRequest, lines 178-179: the requested range
ReqStart(off) == off
\* (faulty variant: the whole block length is requested from the offset on)
NeededLenWholeBlock(numBytes, off) == numBytes
\* writeBlockReadRequest, line 178: the bytes from the offset to the end
NeededLen(numBytes, off) == numBytes - off

\* (faulty variant: nothing is discarded)
AmountToDiscardNone(off, chunkOff) == 0
\* connectNext, line 149
AmountToDiscard(off, chunkOff) == off - chunkOff

\* (faulty variant: Close returns the error of conn.Close())
CloseOpReturnsConnErr(cl, cn, op) ==
    [closed |-> TRUE,
     conn |-> cn,
     open |-> IF cn # 0 THEN op \ {cn} ELSE op,
     err |-> IF cn # 0 /\ cn \notin op THEN ErrIO ELSE NoErr]
\* Close, lines 101-108, as a function of the fields it touches
CloseOp(cl, cn, op) ==
    [closed |-> TRUE,
     conn |-> cn,
     open |-> IF cn # 0 THEN op \ {cn} ELSE op,
     err |-> NoErr]

\* (faulty variant: the error of a failed discard is recorded as it is)
DiscardErrRaw(err) == err
\* connectNext, lines 151-158: the error returned when the discard fails
DiscardErr(err) == IF err = EOF THEN ErrUnexpectedEOF ELSE err

\* NewBlockReader, lines 31-44
NewBlockReader(l, off) ==
    /\ locs' = l
    /\ remaining' = NewDatanodeFailover(l, cache)
    /\ current' = 0
    /\ lastErr' = NoErr
    /\ stream' = NoStream
    /\ conn' = 0
    /\ offset' = off
    /\ closed' = FALSE
    /\ pc' = "idle"
    /\ buf' = 0
    /\ ret' = NoRet
    /\ closeRet' = "none"
    /\ open' = {}
    /\ dialed' = <<>>
    /\ initOffset' = off
    /\ delivered' = <<>>
    /\ attempt' = NoAttempt
    /\ returned' = 0
    /\ call' = NoCall
    /\ UNCHANGED <<cache, everFailed>>

\* the offsets a reader is constructed with: NewBlockReader takes the offset
\* as it is given, also a negative one and one past the end of the block
Offsets == (-1)..(NumBytes + 1)

\* the first reader, NewBlockReader(l, off), with an empty failure cache
ReaderInit(l, off) ==
    /\ session = 1
    /\ cache = [a \in Nodes |-> 0]
    /\ everFailed = {}
    /\ locs = l
    /\ remaining = NewDatanodeFailover(l, cache)
    /\ current = 0
    /\ lastErr = NoErr
    /\ stream = NoStream
    /\ conn = 0
    /\ offset = off
    /\ closed = FALSE
    /\ pc = "idle"
    /\ buf = 0
    /\ ret = NoRet
    /\ closeRet = "none"
    /\ open = {}
    /\ dialed = <<>>
    /\ initOffset = off
    /\ delivered = <<>>
    /\ attempt = NoAttempt
    /\ returned = 0
    /\ call = NoCall

Init ==
    /\ \E l \in LocLists, off \in Offsets : ReaderInit(l, off)
    /\ resp = NoResp
    /\ ppc = "off"
    /\ parsed = NoParsed

\* a later session: once the reader is closed and no call is in flight, a new
\* BlockReader is constructed for the same block, at any offset, over the
\* same failure cache
NextSession ==
    /\ pc = "idle"
    /\ closed
    /\ session < MaxSessions
    /\ session' = session + 1
    /\ \E off \in Offsets : NewBlockReader(locs, off)
    /\ UNCHANGED parseVars

\* Close, lines 101-108; any thread may call it at any moment
Close ==
    LET c == CloseOp(closed, conn, open)
    IN /\ closed' = c.closed
       /\ conn' = c.conn
       /\ open' = c.open
       /\ closeRet' = c.err
       /\ UNCHANGED <<session, locs, cache, remaining, current, lastErr, stream,
                      offset, pc, buf, ret, dialed, initOffset, delivered,
                      everFailed, attempt, returned, call>>
       /\ UNCHANGED parseVars

\* Read, lines 56-61: the checks on entry
ReadEnter(len) ==
    /\ pc = "idle"
    /\ LET check == EntryCheck(closed, offset, NumBytes)
       IN IF check = "closed"
            THEN /\ ret' = [n |-> 0, err |-> ErrClosedPipe]
                 /\ UNCHANGED <<closed, conn, open, closeRet, pc, buf>>
            ELSE IF check = "eof"
            THEN LET c == CloseOp(closed, conn, open)
                 IN /\ closed' = c.closed
                    /\ conn' = c.conn
                    /\ open' = c.open
                    /\ closeRet' = c.err
                    /\ ret' = [n |-> 0, err |-> EOF]
                    /\ UNCHANGED <<pc, buf>>
            ELSE /\ pc' = "loop"
                 /\ buf' = len
                 /\ ret' = NoRet
                 /\ UNCHANGED <<closed, conn, open, closeRet>>
    /\ call' = IF EntryCheck(closed, offset, NumBytes) = "loop"
                 THEN [rem |-> NumRemaining(remaining), attempts |-> 0,
                       reads |-> 0]
                 ELSE NoCall
    /\ UNCHANGED <<session, locs, cache, remaining, current, lastErr, stream,
                   offset, dialed, initOffset, delivered, everFailed, attempt,
                   returned>>

\* (faulty variant: the failed attempt is not recorded)
ConnectFailedUnrecorded(address, err, op) ==
    /\ cache' = cache
    /\ lastErr' = lastErr
    /\ everFailed' = everFailed \cup {address}
    /\ open' = op
    /\ pc' = "loop"
    /\ UNCHANGED <<stream, conn, buf, ret>>
\* (faulty variant: the error of the failed attempt is returned to the caller)
ConnectFailedReturns(address, err, op) ==
    /\ cache' = RecordedCache(cache, address)
    /\ lastErr' = err
    /\ everFailed' = everFailed \cup {address}
    /\ open' = op
    /\ pc' = "idle"
    /\ buf' = 0
    /\ ret' = [n |-> 0, err |-> err]
    /\ UNCHANGED <<stream, conn>>
\* Read, lines 69-72: connectNext returned err; the failure is recorded and
\* the loop continues.  op is the set of open sockets connectNext leaves.
ConnectFailed(address, err, op) ==
    /\ cache' = RecordedCache(cache, address)
    /\ lastErr' = err
    /\ everFailed' = everFailed \cup {address}
    /\ open' = op
    /\ pc' = "loop"
    /\ UNCHANGED <<stream, conn, buf, ret>>

\* connectNext, lines 162-164: the stream and its socket are stored and
\* connectNext returns nil; Read goes on at line 77
ConnectInstalled(id, pos, end) ==
    /\ stream' = [sock |-> id, pos |-> pos, end |-> end]
    /\ conn' = id
    /\ pc' = "loop"
    /\ UNCHANGED <<cache, lastErr, everFailed, open, buf, ret>>

\* connectNext, lines 113-115, for the popped address, with rest the
\* candidates the selector is left with: the candidate is popped and the
\* dial to it starts.  connectNext then waits on the network at the dial,
\* the request, the response and the discard, and a Close of another thread
\* can land at each of these waits.
ConnectNext(address, rest) ==
    /\ remaining' = rest
    /\ current' = address
    /\ dialed' = Append(dialed, address)
    /\ call' = [call EXCEPT !.attempts = @ + 1]
    /\ attempt' = [NoAttempt EXCEPT !.stage = "dial"]
    /\ pc' = "connect"
    /\ UNCHANGED <<session, locs, cache, lastErr, stream, conn, offset, closed,
                   buf, ret, closeRet, open, initOffset, delivered, everFailed,
                   returned>>

\* (faulty variant: the popped candidate is queued again)
LoopConnectRequeue ==
    /\ pc = "loop"
    /\ LoopGuard(stream, remaining)
    /\ stream.sock = 0
    /\ ConnectNext(Head(remaining), Append(Tail(remaining), Head(remaining)))
    /\ UNCHANGED parseVars
\* Read, lines 64-68: one iteration of the loop without an active stream
\* calls connectNext
LoopConnect ==
    /\ pc = "loop"
    /\ LoopGuard(stream, remaining)
    /\ stream.sock = 0
    /\ ConnectNext(Head(remaining), Tail(remaining))
    /\ UNCHANGED parseVars

\* connectNext, lines 115-118: net.DialTimeout returned; the socket of a
\* successful dial gets the number of the attempt as its id and is held in
\* the local conn, not in br.conn
ConnectDial ==
    /\ pc = "connect"
    /\ attempt.stage = "dial"
    /\ \/ /\ \E e \in DialErrs : ConnectFailed(current, e, open)
          /\ UNCHANGED attempt
       \/ /\ open' = open \cup {Len(dialed)}
          /\ attempt' = [attempt EXCEPT !.stage = "write"]
          /\ UNCHANGED <<cache, lastErr, everFailed, stream, conn, pc, buf, ret>>
    /\ UNCHANGED <<session, locs, remaining, current, offset, closed, closeRet,
                   dialed, initOffset, delivered, returned, call>>
    /\ UNCHANGED parseVars

\* connectNext, lines 120-123: writeBlockReadRequest returned; a failed
\* request returns without closing the socket
ConnectWrite ==
    /\ pc = "connect"
    /\ attempt.stage = "write"
    /\ \/ /\ \E e \in WriteErrs : ConnectFailed(current, e, open)
          /\ UNCHANGED attempt
       \/ /\ attempt' = [attempt EXCEPT !.stage = "resp"]
          /\ UNCHANGED <<cache, lastErr, everFailed, open, stream, conn, pc,
                         buf, ret>>
    /\ UNCHANGED <<session, locs, remaining, current, offset, closed, closeRet,
                   dialed, initOffset, delivered, returned, call>>
    /\ UNCHANGED parseVars

\* connectNext, lines 125-149 and 162-164: readBlockReadResponse returned.
\* A failed response and an unsupported checksum type return without closing
\* the socket; a response whose chunk offset is not before the offset has
\* its stream installed at once; otherwise the discard starts.
ConnectResponse ==
    /\ pc = "connect"
    /\ attempt.stage = "resp"
    /\ \/ /\ \E e \in RespErrs : ConnectFailed(current, e, open)
          /\ UNCHANGED attempt
       \/ /\ ConnectFailed(current, ErrChecksumType, open)
          /\ attempt' = [attempt EXCEPT !.stage = "checksum"]
       \/ \E chunkSize \in 1..MaxChunk :
            LET chunkOff == ChunkStart(ReqStart(offset), chunkSize)
                end == ReqStart(offset) + NeededLen(NumBytes, offset)
                amountToDiscard == AmountToDiscard(offset, chunkOff)
            IN IF amountToDiscard > 0
                 THEN /\ attempt' = [stage |-> "discard",
                                     chunkOff |-> chunkOff,
                                     discarded |-> 0]
                      /\ UNCHANGED <<cache, lastErr, everFailed, open, stream,
                                     conn, pc, buf, ret>>
                 ELSE /\ attempt' = [stage |-> "ok",
                                     chunkOff |-> chunkOff,
                                     discarded |-> 0]
                      /\ ConnectInstalled(Len(dialed), chunkOff, end)
    /\ UNCHANGED <<session, locs, remaining, current, offset, closed, closeRet,
                   dialed, initOffset, delivered, returned, call>>
    /\ UNCHANGED parseVars

\* connectNext, lines 149-164: io.CopyN returned.  A failed discard closes
\* the socket and returns the error; after a complete discard the stream,
\* which has read amountToDiscard bytes, is installed.
ConnectDiscard ==
    /\ pc = "connect"
    /\ attempt.stage = "discard"
    /\ LET amountToDiscard == AmountToDiscard(offset, attempt.chunkOff)
           end == ReqStart(offset) + NeededLen(NumBytes, offset)
       IN \/ /\ \E e \in StreamErrs \cup {EOF} :
                   ConnectFailed(current, DiscardErr(e),
                                 open \ {Len(dialed)})
             /\ UNCHANGED attempt
          \/ /\ attempt' = [attempt EXCEPT !.stage = "ok",
                                           !.discarded = amountToDiscard]
             /\ ConnectInstalled(Len(dialed),
                                 attempt.chunkOff + amountToDiscard, end)
    /\ UNCHANGED <<session, locs, remaining, current, offset, closed, closeRet,
                   dialed, initOffset, delivered, returned, call>>
    /\ UNCHANGED parseVars

\* Read, lines 77-89: one read of the active stream, which returned r.
\* The records of the call, attempt and call, end when Read returns.
StreamRead(r) ==
    /\ offset' = offset + r.n
    /\ delivered' = delivered \o BlockBytes(stream.pos, r.n)
    /\ IF IsFailure(r.err)
         THEN /\ stream' = NoStream
              /\ cache' = RecordedCache(cache, current)
              /\ lastErr' = r.err
              /\ everFailed' = everFailed \cup {current}
              /\ IF ReturnsPartial(r.n)
                   THEN /\ pc' = "idle"
                        /\ buf' = 0
                        /\ ret' = [n |-> r.n, err |-> NoErr]
                        /\ returned' = returned + r.n
                        /\ attempt' = NoAttempt
                        /\ call' = NoCall
                   ELSE /\ pc' = "loop"
                        /\ call' = [call EXCEPT !.reads = @ + 1]
                        /\ UNCHANGED <<buf, ret, returned, attempt>>
         ELSE /\ stream' = [stream EXCEPT !.pos = @ + r.n]
              /\ pc' = "idle"
              /\ buf' = 0
              /\ ret' = [n |-> r.n, err |-> r.err]
              /\ returned' = returned + r.n
              /\ attempt' = NoAttempt
              /\ call' = NoCall
              /\ UNCHANGED <<cache, lastErr, everFailed>>
    /\ UNCHANGED <<session, locs, remaining, current, conn, closed,
                   closeRet, open, dialed, initOffset>>

\* Read, lines 64 and 74-89: one iteration of the loop with an active stream
LoopRead ==
    /\ pc = "loop"
    /\ LoopGuard(stream, remaining)
    /\ stream.sock # 0
    /\ \E r \in StreamOutcomes(stream, buf, open) : StreamRead(r)
    /\ UNCHANGED parseVars

\* Read, lines 64 and 92-97: the loop ended
LoopExit ==
    /\ pc = "loop"
    /\ ~LoopGuard(stream, remaining)
    /\ pc' = "idle"
    /\ buf' = 0
    /\ ret' = [n |-> 0, err |-> ExhaustErr(lastErr)]
    /\ attempt' = NoAttempt
    /\ call' = NoCall
    /\ UNCHANGED <<session, locs, cache, remaining, current, lastErr, stream,
                   conn, offset, closed, closeRet, open, dialed,
                   initOffset, delivered, everFailed, returned>>
    /\ UNCHANGED parseVars

\* Read(b), lines 55-61, for a buffer of any positive length
Read ==
    /\ \E len \in 1..MaxBuf : ReadEnter(len)
    /\ UNCHANGED parseVars

\* one reader
Next ==
    \/ Read
    \/ LoopConnect
    \/ ConnectDial
    \/ ConnectWrite
    \/ ConnectResponse
    \/ ConnectDiscard
    \/ LoopRead
    \/ LoopExit
    \/ Close

Spec == Init /\ [][Next]_vars

\* readers one after the other, sharing the failure cache
NextShared ==
    \/ Read
    \/ LoopConnect
    \/ ConnectDial
    \/ ConnectWrite
    \/ ConnectResponse
    \/ ConnectDiscard
    \/ LoopRead
    \/ LoopExit
    \/ Close
    \/ NextSession

SpecShared == Init /\ [][NextShared]_vars

\* one reader whose Read call is not left waiting: each dial, send and
\* receive returns, so an iteration of the loop that can be taken is taken
SpecLive ==
    /\ Init
    /\ [][Next]_vars
    /\ WF_vars(LoopConnect \/ ConnectDial \/ ConnectWrite \/ ConnectResponse
                  \/ ConnectDiscard \/ LoopRead \/ LoopExit)

\* ------------------------------------------------- readBlockReadResponse
\* binary.MaxVarintLen32, the size of the scratch buffer of line 199
MaxVarintLen32 == 5

\* x shifted right by 7 bits, k times
RECURSIVE Shr7(_, _)
Shr7(x, k) == IF k = 0 THEN x ELSE Shr7(x \div 128, k - 1)

\* the length L written as a base-128 varint of v bytes, little-endian
\* groups, every byte but the last with the continuation bit; more bytes
\* than L needs are zero groups
VarintBytes(v, L) ==
    [i \in 1..v |-> (Shr7(L, i - 1) % 128) + (IF i < v THEN 128 ELSE 0)]

\* the bytes of the response message and the bytes of the data stream that
\* follow it on the socket
MsgBytes(L) == [i \in 1..L |-> i]
TailBytes(t) == [j \in 1..t |-> 200 + j]

\* what a datanode puts on the socket for the response r
Wire(r) == VarintBytes(r.v, r.len) \o MsgBytes(r.len) \o TailBytes(r.tail)

\* the responses: a prefix of v bytes (one more than the scratch buffer holds
\* at most), a message of len bytes that is a well-formed message or not,
\* tail bytes after it; the socket delivers the first cut bytes and then
\* ends with end
Responses ==
    {r \in [v : 1..(MaxVarintLen32 + 1), len : 0..MaxMsgLen, tail : 0..MaxTail,
            cut : 0..(MaxVarintLen32 + 1 + MaxMsgLen + MaxTail),
            end : {EOF, ErrIO}, proto : BOOLEAN] :
        r.cut <= r.v + r.len + r.tail}

\* io.ReadFull(r, p) with len(p) = n on the socket of response r read up to
\* pos: n bytes, or the error of the socket's end, where EOF after some but
\* not all of the bytes becomes ErrUnexpectedEOF; nothing is read for n = 0
ReadFull(r, pos, n) ==
    IF n = 0
      THEN [data |-> <<>>, err |-> NoErr, pos |-> pos]
      ELSE IF r.cut - pos >= n
        THEN [data |-> SubSeq(Wire(r), pos + 1, pos + n), err |-> NoErr,
              pos |-> pos + n]
        ELSE [data |-> SubSeq(Wire(r), pos + 1, r.cut),
              err |-> IF r.end = EOF /\ r.cut - pos > 0
                        THEN ErrUnexpectedEOF
                        ELSE r.end,
              pos |-> r.cut]

\* binary.Uvarint(buf), line 205: the value and the number of bytes of the
\* varint at the head of buf, or n = 0 when buf ends inside the varint (the
\* overflow checks of Uvarint need more than MaxVarintLen32 bytes)
RECURSIVE UvarintFrom(_, _, _, _)
UvarintFrom(b, i, x, w) ==
    IF i > Len(b)
      THEN [value |-> 0, n |-> 0]
      ELSE IF b[i] < 128
        THEN [value |-> x + b[i] * w, n |-> i]
        ELSE UvarintFrom(b, i + 1, x + (b[i] % 128) * w, w * 128)

Uvarint(b) == UvarintFrom(b, 1, 0, 1)

\* proto.Unmarshal, line 219, of the bytes handed to it
Unmarshal(bytes, r) ==
    IF r.proto /\ bytes = MsgBytes(r.len) THEN NoErr ELSE ErrProto

\* readBlockReadResponse, lines 198-225, on the socket of response r: the
\* error, the message bytes decoded, and the bytes taken from the socket
ReadBlockReadResponse(r) ==
    LET scratch == ReadFull(r, 0, MaxVarintLen32)
    IN IF scratch.err # NoErr
         THEN [err |-> scratch.err, msg |-> <<>>, consumed |-> scratch.pos]
         ELSE
           LET u == Uvarint(scratch.data)
               respLength == u.value
               varintLength == u.n
           IN IF varintLength < 1
                THEN [err |-> ErrUnexpectedEOF, msg |-> <<>>,
                      consumed |-> scratch.pos]
                ELSE
                  LET extra == SubSeq(scratch.data, varintLength + 1,
                                      MaxVarintLen32)
                      extraLength == Min(respLength, Len(extra))
                      rest == ReadFull(r, scratch.pos,
                                       respLength - extraLength)
                      respBytes == SubSeq(extra, 1, extraLength) \o rest.data
                  IN IF rest.err # NoErr
                       THEN [err |-> rest.err, msg |-> <<>>,
                             consumed |-> rest.pos]
                       ELSE IF Unmarshal(respBytes, r) # NoErr
                         THEN [err |-> Unmarshal(respBytes, r), msg |-> <<>>,
                               consumed |-> rest.pos]
                         ELSE [err |-> NoErr, msg |-> respBytes,
                               consumed |-> rest.pos]

\* connectNext, line 125: the response of a datanode is read from a socket
ParseInit ==
    /\ ReaderInit(<<>>, 0)
    /\ resp \in Responses
    /\ ppc = "start"
    /\ parsed = NoParsed

ParseResponse ==
    /\ ppc = "start"
    /\ ppc' = "done"
    /\ parsed' = ReadBlockReadResponse(resp)
    /\ UNCHANGED resp
    /\ UNCHANGED readerVars

SpecParse == ParseInit /\ [][ParseResponse]_vars

\* ---------------------------------------------------------------- claims
\* a Read call has returned bytes and no error, and left no stream: its
\* stream read failed after those bytes
RetPartialFailure ==
    pc = "idle" /\ ret.err = NoErr /\ ret.n > 0 /\ stream.sock = 0

\* C1: the bytes returned by the successive Read calls of one reader are the
\* block's bytes from the initial offset on, contiguous, none duplicated and
\* none skipped across failovers; an active stream stands at the current
\* offset and ends at the end of the block.
C1_DeliveredContiguous ==
    /\ delivered = BlockBytes(initOffset, offset - initOffset)
    /\ stream.sock # 0 => stream.pos = offset /\ stream.end = NumBytes

\* the whole block was read from offset 0 through a second connection, made
\* at an offset inside a chunk after the first one failed
C1_Witness ==
    /\ initOffset = 0
    /\ offset = NumBytes
    /\ Len(delivered) = NumBytes
    /\ stream.sock = 2
    /\ cache[dialed[1]] > 0
    /\ ret.n = NumBytes - 1

\* C2: a Read call whose stream read fails with a non-EOF error after k > 0
\* bytes returns (k, nil); the stream is dropped and the failure recorded
\* against the current datanode, and the next iteration without a stream
\* goes to the next remaining candidate.
C2_PartialReadReturned ==
    /\ [][\A k \in 1..NumBytes, e \in StreamErrs :
            (/\ pc = "loop"
             /\ stream.sock # 0
             /\ [n |-> k, err |-> e] \in StreamOutcomes(stream, buf, open)
             /\ StreamRead([n |-> k, err |-> e]))
            => /\ pc' = "idle"
               /\ ret' = [n |-> k, err |-> NoErr]
               /\ offset' = offset + k
               /\ stream' = NoStream
               /\ lastErr' = e
               /\ cache' = [cache EXCEPT ![current] = cache[current] + 1]]_vars
    /\ [][(RetPartialFailure /\ ~closed /\ offset < NumBytes /\ Read)
            => /\ pc' = "loop"
               /\ stream'.sock = 0
               /\ UNCHANGED <<remaining, dialed>>]_vars
    /\ [][(/\ pc = "loop"
           /\ stream.sock = 0
           /\ remaining # <<>>
           /\ (LoopConnect \/ LoopRead \/ LoopExit))
            => /\ dialed' = Append(dialed, Head(remaining))
               /\ remaining' = Tail(remaining)]_vars

\* a Read call has just returned 1 byte and no error after its stream failed
\* with a checksum mismatch, and a candidate remains
C2_Witness ==
    /\ RetPartialFailure
    /\ ret.n = 1
    /\ lastErr = ErrChecksum
    /\ offset = initOffset + 1
    /\ remaining # <<>>

\* C3 (as stated): no candidate address is dialed more than once by one
\* reader.
C3_NoRedial ==
    \A i, j \in DOMAIN dialed : i # j => dialed[i] # dialed[j]

\* C3 (amended): no candidate is dialed more than once: every attempt pops
\* a candidate that does not come back, so an address is dialed at most as
\* often as it occurs in the block's locations, which NewBlockReader takes
\* with their repetitions; when the locations are distinct no address is
\* dialed twice.
C3_NoRedialOfCandidate ==
    /\ \A a \in Nodes :
          Cardinality({i \in DOMAIN dialed : dialed[i] = a})
            + Cardinality({i \in DOMAIN remaining : remaining[i] = a})
              = Cardinality({i \in DOMAIN locs : locs[i] = a})
    /\ (\A i, j \in DOMAIN locs : i # j => locs[i] # locs[j])
          => \A i, j \in DOMAIN dialed : i # j => dialed[i] # dialed[j]

\* the block lists one address twice and both candidates have been dialed,
\* the second after the stream of the first failed in the middle of the
\* block
C3_Witness ==
    /\ Len(dialed) = NumNodes
    /\ \A i \in DOMAIN dialed : dialed[i] = 1
    /\ remaining = <<>>
    /\ offset > initOffset
    /\ stream.sock = 0
    /\ pc = "idle"
    /\ ret.n = 0


\* C4: once the reader is closed it dials no datanode and reads from no
\* open socket, also when Close is called while a Read call is in flight.
C4_NoNetworkAfterClose ==
    [][closed => ~(LoopConnect \/ (stream.sock \in open /\ LoopRead))]_vars

\* C5: a Read call on an open reader whose offset is at or past the block
\* length returns (0, EOF) at once, without a connection attempt, and closes
\* the reader; from then on the reader stays closed and every Read call
\* returns (0, ErrClosedPipe).
C5_EndOfBlock ==
    /\ [][(~closed /\ offset >= NumBytes /\ Read)
            => /\ ret' = [n |-> 0, err |-> EOF]
               /\ closed'
               /\ pc' = "idle"
               /\ UNCHANGED <<dialed, remaining, offset, stream, cache>>]_vars
    /\ [][(closed /\ Read) => ret' = [n |-> 0, err |-> ErrClosedPipe]]_vars
    /\ [][closed => closed']_vars

\* the block was read to its end over a connection, and the next Read call
\* returned (0, EOF) and closed the reader
C5_Witness ==
    /\ pc = "idle"
    /\ ret = [n |-> 0, err |-> EOF]
    /\ closed
    /\ offset = NumBytes
    /\ Len(delivered) = NumBytes
    /\ stream.pos = NumBytes
    /\ stream.sock \notin open

\* C6: a Read call on a closed reader returns (0, ErrClosedPipe) and changes
\* nothing: offset, selector, failure cache, stream and socket stay as they
\* are and nothing is popped or dialed.
C6_ClosedReadChangesNothing ==
    [][(closed /\ Read)
         => /\ ret' = [n |-> 0, err |-> ErrClosedPipe]
            /\ UNCHANGED <<offset, remaining, current, lastErr, cache, stream,
                           conn, open, dialed, closed, delivered, pc>>]_vars

\* a reader closed in the middle of the block, with a stream and candidates
\* left, has answered a Read call with ErrClosedPipe
C6_Witness ==
    /\ closed
    /\ pc = "idle"
    /\ ret = [n |-> 0, err |-> ErrClosedPipe]
    /\ offset < NumBytes
    /\ stream.sock # 0
    /\ remaining # <<>>

\* C7: when the loop ends with no candidate left and no stream, Read returns
\* 0 bytes and the error recorded last, or the generic error when no failure
\* was recorded; no error is recorded exactly when no dialed datanode failed.
C7_ExhaustionError ==
    /\ [][LoopExit
            => /\ remaining = <<>>
               /\ stream.sock = 0
               /\ ret' = [n |-> 0,
                          err |-> IF lastErr = NoErr THEN ErrNoDatanodes
                                                     ELSE lastErr]]_vars
    /\ [](lastErr = NoErr <=> \A i \in DOMAIN dialed : dialed[i] \notin everFailed)

\* every datanode of the block failed, the last one with a checksum
\* mismatch, and Read returned that error
C7_Witness ==
    /\ pc = "idle"
    /\ Len(dialed) = NumNodes
    /\ remaining = <<>>
    /\ stream.sock = 0
    /\ lastErr = ErrChecksum
    /\ ret = [n |-> 0, err |-> ErrChecksum]

\* C8: Read returns an error other than EOF and ErrClosedPipe only with 0
\* bytes, no candidate left and no stream.
C8_ErrorsOnlyAtExhaustion ==
    (pc = "idle" /\ ret.err \notin {"none", NoErr, EOF, ErrClosedPipe})
        => (ret.n = 0 /\ stream.sock = 0 /\ remaining = <<>>)

\* after a connection failure and a stream failure, absorbed by the loop,
\* Read returned the error of the failed dial to the last candidate
C8_Witness ==
    /\ pc = "idle"
    /\ ret = [n |-> 0, err |-> ErrDial]
    /\ Len(dialed) = NumNodes
    /\ offset > initOffset

\* C9: a new reader orders every datanode that failed before after every
\* datanode of the block that never failed, and each failed attempt and each
\* failed stream raises the failure count of its datanode.
\* (a step that constructs a reader changes session; a step by which
\* connectNext returns and leaves no stream is a failed attempt, a step of
\* the loop that had a stream and leaves none is a failed read)
C9_FailedNodesLast ==
    /\ [][session' # session
            => \A i, j \in DOMAIN remaining' :
                  (i < j /\ remaining'[j] \notin everFailed)
                      => remaining'[i] \notin everFailed]_vars
    /\ [][(/\ session' = session
           /\ \/ pc = "connect" /\ pc' # "connect"
              \/ pc = "loop" /\ stream.sock # 0
           /\ stream'.sock = 0)
            => cache'[current'] > cache[current']]_vars
    /\ [][\A a \in Nodes : cache'[a] >= cache[a]]_vars

\* the second reader of a block starts with the block's second replica
\* first, because the first replica failed in the first session
C9_Witness ==
    /\ session = 2
    /\ dialed = <<>>
    /\ Len(locs) = 2
    /\ remaining = <<locs[2], locs[1]>>
    /\ cache[locs[1]] = 1
    /\ cache[locs[2]] = 0

\* C10: Close returns no error and a second Close changes nothing the first
\* one left, in every state; closed is never reset.
C10_CloseIdempotent ==
    /\ [](LET c == CloseOp(closed, conn, open)
          IN /\ c.err = NoErr
             /\ c.closed
             /\ CloseOp(c.closed, c.conn, c.open) = c)
    /\ [][Close => (closed' /\ closeRet' = NoErr /\ conn' \notin open')]_vars
    /\ [][closed => closed']_vars

\* a reader closed after a failover, with the socket of its stream released
C10_Witness ==
    /\ closed
    /\ closeRet = NoErr
    /\ stream.sock = 2
    /\ conn = 2
    /\ conn \notin open
    /\ offset < NumBytes

\* C11: at most one socket opened by the reader is open at a time, and when
\* a new stream and socket are installed the socket they replace has been
\* closed.
C11_OneSocketOpen ==
    /\ [](Cardinality(open) <= 1)
    /\ [][(conn' # conn /\ conn # 0) => conn \notin open]_vars

\* C12: an attempt that dialed and then failed to send the request, to parse
\* the response or to accept the checksum type leaves its socket closed.
C12_HandshakeFailureClosesSocket ==
    [][(/\ pc = "connect"
        /\ pc' = "loop"
        /\ attempt'.stage \in {"write", "resp", "checksum"})
          => Len(dialed) \notin open']_vars

\* C13: a connection whose chunk-aligned start lies before the offset has
\* exactly offset - start bytes discarded before its stream is installed, so
\* that the stream stands at the offset and nothing was returned meanwhile;
\* when the discard fails the attempt fails, with unexpected-EOF in place of
\* EOF: its socket is closed, no stream is installed, the failure is recorded
\* and the offset stays.
C13_DiscardBeforeData ==
  /\ []((pc = "connect" /\ attempt.stage = "discard")
          => attempt.chunkOff < offset /\ ret = NoRet /\ stream = NoStream)
  /\
    [][(pc = "connect" /\ pc' # "connect")
         => /\ attempt'.stage = "ok"
                 => /\ attempt'.chunkOff <= offset
                    /\ attempt'.discarded = offset - attempt'.chunkOff
                    /\ attempt.stage = "discard" <=> attempt'.discarded > 0
                    /\ stream'.sock = Len(dialed')
                    /\ stream'.pos = offset
                    /\ UNCHANGED <<offset, delivered, returned, ret>>
            /\ attempt'.stage = "discard"
                 => /\ attempt'.chunkOff < offset
                    /\ Len(dialed') \notin open'
                    /\ stream' = NoStream
                    /\ conn' = conn
                    /\ lastErr' \in StreamErrs \cup {ErrUnexpectedEOF}
                    /\ cache'[current'] = cache[current'] + 1
                    /\ UNCHANGED <<offset, delivered, returned, ret>>]_vars

\* the first connection ended during the discard and was closed, and the
\* second one had bytes discarded up to the offset and is installed
C13_Witness ==
    /\ pc = "loop"
    /\ Len(dialed) = 2
    /\ 1 \notin open
    /\ lastErr = ErrUnexpectedEOF
    /\ attempt.stage = "ok"
    /\ attempt.discarded > 0
    /\ stream.sock = 2
    /\ stream.pos = offset

\* C14: a failed connection attempt, whatever the stage it failed at, only
\* consumes the first candidate and records the failure against it: the
\* offset, the closed flag, the absent stream and the stored socket are
\* unchanged, and Read stays in its loop without a result.
C14_FailedAttemptFrame ==
    /\ [][(pc = "loop" /\ pc' = "connect")
            => /\ remaining' = Tail(remaining)
               /\ current' = Head(remaining)
               /\ dialed' = Append(dialed, Head(remaining))
               /\ stream = NoStream
               /\ UNCHANGED <<cache, lastErr, offset, closed, stream, conn,
                              ret, buf, delivered, returned>>]_vars
    /\ [][(pc = "connect" /\ pc' = "connect")
            => UNCHANGED <<remaining, current, dialed, cache, lastErr, offset,
                           stream, conn, ret, buf, delivered, returned>>]_vars
    /\ [][(/\ pc = "connect"
           /\ pc' # "connect"
           /\ attempt'.stage
                 \in {"dial", "write", "resp", "checksum", "discard"})
            => /\ cache' = [cache EXCEPT ![current] = @ + 1]
               /\ lastErr' # NoErr
               /\ stream = NoStream
               /\ pc' = "loop"
               /\ UNCHANGED <<remaining, current, dialed, offset, closed,
                              stream, conn, ret, buf, delivered, returned,
                              locs, initOffset>>]_vars

\* one Read call has seen an attempt fail at each of two stages, the second
\* at the discard, and is still in its loop at the offset it started from
C14_Witness ==
    /\ pc = "loop"
    /\ Len(dialed) = 2
    /\ attempt.stage = "discard"
    /\ open = {1}
    /\ cache = [a \in Nodes |-> 1]
    /\ remaining = <<>>
    /\ stream = NoStream
    /\ conn = 0
    /\ offset = initOffset
    /\ ret = NoRet

\* C15 (as stated): the offset is within 0 .. block length in every state
\* and never decreases.
C15_OffsetInRange ==
    /\ [](0 <= offset /\ offset <= NumBytes)
    /\ [][offset' >= offset]_vars

\* C15 (amended): the offset never decreases, and it is within 0 .. block
\* length in every state of a reader constructed with an offset in that
\* range; NewBlockReader stores the offset it is given unchecked.
C15_OffsetMonotoneBounded ==
    /\ [][offset' >= offset]_vars
    /\ [](offset >= initOffset)
    /\ [](initOffset \in 0..NumBytes => offset \in 0..NumBytes)

\* a reader constructed at the start of the block has advanced to the end
\* of the block over a failover
C15_Witness ==
    /\ initOffset = 0
    /\ offset = NumBytes
    /\ Len(dialed) = 2
    /\ Len(delivered) = NumBytes
    /\ pc = "idle"

\* C16: the offset is the initial offset plus the byte counts the Read calls
\* have returned: a step adds to the offset exactly the count it returns to
\* the caller, and a step that does not return adds nothing.
C16_OffsetIsInitialPlusReturned ==
    /\ [](offset = initOffset + returned)
    /\ [][offset' - offset
            = (IF pc = "loop" /\ pc' = "idle" THEN ret'.n ELSE 0)]_vars
    /\ [][returned' - returned
            = (IF pc = "loop" /\ pc' = "idle" THEN ret'.n ELSE 0)]_vars

\* two connections delivered one byte each, the first failed and the second
\* ended with EOF, and the offset counts both bytes
C16_Witness ==
    /\ pc = "idle"
    /\ ret = [n |-> 1, err |-> EOF]
    /\ open = {1, 2}
    /\ everFailed = {dialed[1]}
    /\ Len(delivered) = 2
    /\ returned = 2
    /\ offset = initOffset + 2

\* C17: of a response with a prefix of v bytes encoding L and L message
\* bytes on the socket, exactly the L message bytes are decoded; a scratch
\* buffer without a complete varint gives unexpected-EOF; a socket that ends
\* inside the prefix or the message gives the error of the read.
C17_ResponseDecoded ==
    ppc = "done"
      => /\ (/\ resp.v <= MaxVarintLen32
             /\ resp.cut >= resp.v + resp.len
             /\ resp.proto)
               => parsed.err = NoErr /\ parsed.msg = MsgBytes(resp.len)
         /\ (resp.v > MaxVarintLen32 /\ resp.cut >= MaxVarintLen32)
               => parsed.err = ErrUnexpectedEOF
         /\ resp.cut < resp.v + resp.len
               => parsed.err \in {EOF, ErrUnexpectedEOF, ErrIO}

\* C18: a response that is parsed takes exactly the v bytes of its prefix
\* and the L bytes of its message from the socket, so that the next byte
\* read from the socket is the first byte after the message.
C18_ConsumesExactlyResponse ==
    (ppc = "done" /\ parsed.err = NoErr)
      => parsed.consumed = resp.v + resp.len

\* C19: a Read call of a reader constructed inside the block returns EOF
\* only when the offset has reached the block length.
C19_EOFOnlyAtEnd ==
    (initOffset >= 0 /\ pc = "idle" /\ ret.err = EOF) => offset >= NumBytes

\* C20: every Read call returns: a call makes at most as many connection
\* attempts as there were candidates when it was entered, and at most one
\* stream read more than that, because an iteration of the loop that does
\* not return consumes a candidate or drops the active stream.
C20_ReadTerminates ==
    /\ (pc # "idle") ~> (pc = "idle")
    /\ [][LoopConnect => call.attempts + 1 <= call.rem]_vars
    /\ [][LoopRead => call.reads + 1 <= call.rem + 1]_vars
    /\ [][((LoopConnect \/ LoopRead) /\ pc' # "idle")
            => \/ Len(remaining') < Len(remaining)
               \/ /\ remaining' = remaining
                  /\ stream.sock # 0
                  /\ stream'.sock = 0]_vars

\* a Read call entered with an active stream and every candidate left has
\* made as many attempts and one stream read more, and is about to return
C20_Witness ==
    /\ pc = "loop"
    /\ call.rem = NumNodes - 1
    /\ call.attempts = call.rem
    /\ call.reads = call.rem + 1
    /\ remaining = <<>>
    /\ stream.sock = 0

====
